---- MODULE Spec2Model ----
(***************************************************************************)
(* Stock journal: the transaction ledger kept in the Streamlit session     *)
(* state (app.py), the entry paths that change it, and the analytics that  *)
(* are computed from it (portfolio_analytics.py, stock_journal.py).        *)
(*                                                                         *)
(* Money is counted in cents and percentages in hundredths of a percent,   *)
(* so that DataFrame.round(2) is an integer rounding (half to even, as     *)
(* numpy rounds).  Prices are whole currency units.                        *)
(*                                                                         *)
(* The specifications share the variables:                                 *)
(*   Spec       the application: the ledger starts empty and is changed by *)
(*              the entry paths of app.py;                                 *)
(*   SpecPure   the analytics functions applied to every bounded ledger of *)
(*              well-formed transactions (section 3 of the specification); *)
(*   SpecFilter filter_transactions applied to the same ledgers;           *)
(*   SpecValidating  the application without the sidebar import and the    *)
(*              sample data;                                               *)
(*   SpecBatch  the batch entry form taken one loop pass at a time;        *)
(*   SpecCosts  the costs the transaction form works out.                  *)
(***************************************************************************)
EXTENDS Integers, Sequences, FiniteSets, TLC

VARIABLES
    transactions,   \* st.session_state['transactions'], a sequence of rows
    ev              \* the last operation: its inputs and what it reported

vars == <<transactions, ev>>

\* No call or script run is under way.
Ready == ev.op = "idle"

-----------------------------------------------------------------------------
(* Bounds of the model *)

MaxLen == 3       \* rows of a ledger handed to the analytics functions
MaxQty == 2       \* quantities are 1..MaxQty
MaxPrice == 2     \* prices are 1..MaxPrice
MaxDate == 2      \* dates are day numbers 1..MaxDate
MaxLedger == 3    \* no submission is made that could take the ledger past this many rows
MaxRows == 2      \* rows of one submission: batch slots, CSV rows, sample rows
MaxFormPrice == 1 \* prices entered in the application are 1..MaxFormPrice

\* Ticker symbols in ascending order (groupby and sort_values('Ticker') order).
TickerOrder == <<"A", "AAPL", "B">>

\* The symbols the bounded ledgers and the entry forms are filled with.
Tickers == {"A", "B"}

\* A missing ticker: the empty text of a form field, NaN in a CSV cell.
NoTicker == ""

Dates == 1..MaxDate

-----------------------------------------------------------------------------
(* Arithmetic *)

\* The value with its sign kept.
AbsSigned(x) == x

Abs(x) == IF x < 0 THEN -x ELSE x

\* n / d rounded to the nearest integer, ties to even (numpy's round), d > 0.
RoundDiv(n, d) ==
    LET q == n \div d
        r == n % d
    IN  IF 2 * r < d THEN q
        ELSE IF 2 * r > d THEN q + 1
        ELSE IF q % 2 = 0 THEN q ELSE q + 1

\* calculate_transaction_total: price * quantity, negative for a Sell.
calculate_transaction_total(price, quantity, transaction_type) ==
    IF transaction_type = "Sell" THEN -(price * quantity) ELSE price * quantity

\* One ledger row as the entry forms build it.
MkRow(date, ticker, type, price, qty) ==
    [date |-> date, ticker |-> ticker, type |-> type, price |-> price,
     qty |-> qty, total |-> calculate_transaction_total(price, qty, type)]

-----------------------------------------------------------------------------
(* Column operations on a frame (a sequence of rows) *)

RECURSIVE SumQty(_)
SumQty(df) ==
    IF df = <<>> THEN 0 ELSE df[1].qty + SumQty(Tail(df))

RECURSIVE SumTotal(_)
SumTotal(df) ==
    IF df = <<>> THEN 0 ELSE df[1].total + SumTotal(Tail(df))

RECURSIVE SumAbsTotal(_)
SumAbsTotal(df) ==
    IF df = <<>> THEN 0 ELSE Abs(df[1].total) + SumAbsTotal(Tail(df))

\* The rows of a group in the reverse of the order they were passed in.
OfTickerReversed(df, ticker) ==
    LET group == SelectSeq(df, LAMBDA r : r.ticker = ticker)
    IN  [i \in 1..Len(group) |-> group[Len(group) + 1 - i]]

OfTicker(df, ticker) == SelectSeq(df, LAMBDA r : r.ticker = ticker)

\* The selection by type keeps every row.
OfTypeAnyRow(df, type) == df

OfType(df, type) == SelectSeq(df, LAMBDA r : r.type = type)

\* groupby('Ticker'): the group keys in ascending order; rows whose ticker is
\* missing (NaN) belong to no group.
GroupKeys(df) ==
    SelectSeq(TickerOrder, LAMBDA t : \E i \in 1..Len(df) : df[i].ticker = t)

-----------------------------------------------------------------------------
(* portfolio_analytics.get_current_holdings *)

\* The Sell quantities left positive.
NegateSellsSkipped(df) == df

\* holdings.loc[type == 'Sell', 'Quantity'] = -Quantity, on the copy.
NegateSells(df) ==
    [i \in 1..Len(df) |->
        IF df[i].type = "Sell" THEN [df[i] EXCEPT !.qty = -df[i].qty] ELSE df[i]]

\* A ticker whose shares sum to exactly zero is kept.
SkipSharesOnlyNegative(shares) == shares < 0

\* Whether a ticker's summed signed quantity leaves it out of the holdings.
SkipShares(shares) == shares <= 0

\* The holdings row of one group (rows of one ticker, Sell quantities negated).
\* A holding whose cost is taken from the last Buy row of the group alone.
HoldingRowAtLastCost(ticker, group) ==
    LET shares == SumQty(group)
        buys == OfType(group, "Buy")
        num == IF buys # <<>> THEN buys[Len(buys)].price ELSE 0
        last_price == group[Len(group)].price
        current_value == shares * last_price
    IN  [Ticker |-> ticker,
         Shares |-> shares,
         AverageCost |-> 100 * num,
         TotalCost |-> 100 * num * shares,
         CurrentValue |-> 100 * current_value,
         ProfitLoss |-> 100 * (current_value - num * shares),
         ReturnPct |-> IF num * shares > 0
                       THEN RoundDiv(10000 * (current_value - num * shares),
                                     num * shares)
                       ELSE 0]

HoldingRow(ticker, group) ==
    LET shares == SumQty(group)
        buys == OfType(group, "Buy")
        total_cost == SumTotal(buys)
        total_bought_shares == SumQty(buys)
        \* avg_cost as the fraction num / den
        hasAvg == buys # <<>> /\ total_bought_shares > 0
        num == IF hasAvg THEN total_cost ELSE 0
        den == IF hasAvg THEN total_bought_shares ELSE 1
        last_price == group[Len(group)].price
        current_value == shares * last_price
    IN  [Ticker |-> ticker,
         Shares |-> shares,
         AverageCost |-> RoundDiv(100 * num, den),
         TotalCost |-> RoundDiv(100 * num * shares, den),
         CurrentValue |-> 100 * current_value,
         ProfitLoss |-> RoundDiv(100 * (current_value * den - num * shares), den),
         ReturnPct |-> IF num * shares > 0
                       THEN RoundDiv(10000 * (current_value * den - num * shares),
                                     num * shares)
                       ELSE 0]

RECURSIVE HoldingsList(_, _)
HoldingsList(holdings, keys) ==
    IF keys = <<>> THEN <<>>
    ELSE LET group == OfTicker(holdings, keys[1])
             rest == HoldingsList(holdings, Tail(keys))
         IN  IF SkipShares(SumQty(group)) THEN rest
             ELSE <<HoldingRow(keys[1], group)>> \o rest

\* The result frame: cols says whether it has its columns.  An empty ledger
\* gives an empty frame with the columns; a ledger none of whose tickers has
\* shares gives pd.DataFrame([]), which has no columns at all.
get_current_holdings(transactions_df) ==
    IF transactions_df = <<>> THEN [cols |-> TRUE, rows |-> <<>>]
    ELSE LET holdings == NegateSells(transactions_df)
             holdings_list == HoldingsList(holdings, GroupKeys(holdings))
         IN  [cols |-> holdings_list # <<>>, rows |-> holdings_list]

\* holdings = transactions_df, without a copy: both names are one frame.
FrameAlias(df) == [frame |-> df, shared |-> TRUE]

\* transactions_df.copy(): a frame of its own with the same rows.
FrameCopy(df) == [frame |-> df, shared |-> FALSE]

\* The caller's frame after get_current_holdings has returned: the Sell
\* quantities are negated in `holdings`, which reaches the caller's frame
\* only if the two share their data.
InputAfterHoldings(transactions_df) ==
    LET holdings == FrameCopy(transactions_df)
    IN  IF transactions_df # <<>> /\ holdings.shared
        THEN NegateSells(holdings.frame)
        ELSE transactions_df

\* Column lookups on a holdings frame.
HeldTickers(holdings) == {holdings.rows[i].Ticker : i \in 1..Len(holdings.rows)}

\* The first row of the frame, whatever its ticker.
HoldingOfFirstRow(holdings, ticker) == holdings.rows[1]

HoldingOf(holdings, ticker) ==
    holdings.rows[CHOOSE i \in 1..Len(holdings.rows) : holdings.rows[i].Ticker = ticker]

RECURSIVE SumField(_, _)
SumField(rows, f) ==
    IF rows = <<>> THEN 0 ELSE rows[1][f] + SumField(Tail(rows), f)

-----------------------------------------------------------------------------
(* portfolio_analytics.get_portfolio_summary *)

\* The rows of a type counted among the tickers of the holdings only.
CountTypeOfHeld(df, type) ==
    Len(SelectSeq(OfType(df, type),
                  LAMBDA r : r.ticker \in HeldTickers(get_current_holdings(df))))

CountType(df, type) == Len(OfType(df, type))

\* return_pct is not rounded: it is kept as the fraction num / den.
get_portfolio_summary(transactions_df) ==
    IF transactions_df = <<>>
    THEN [total_invested |-> 0, current_value |-> 0, profit_loss |-> 0,
          return_pct |-> [num |-> 0, den |-> 1],
          total_transactions |-> 0, total_buys |-> 0, total_sells |-> 0]
    ELSE LET holdings == get_current_holdings(transactions_df)
             total_invested == SumField(holdings.rows, "TotalCost")
             current_value == SumField(holdings.rows, "CurrentValue")
             profit_loss == current_value - total_invested
         IN  [total_invested |-> total_invested,
              current_value |-> current_value,
              profit_loss |-> profit_loss,
              return_pct |-> IF total_invested > 0
                             THEN [num |-> 100 * profit_loss, den |-> total_invested]
                             ELSE [num |-> 0, den |-> 1],
              total_transactions |-> Len(transactions_df),
              total_buys |-> CountType(transactions_df, "Buy"),
              total_sells |-> CountType(transactions_df, "Sell")]

-----------------------------------------------------------------------------
(* portfolio_analytics.calculate_historical_performance *)

\* transactions_df.sort_values('Date'): the rows in ascending date order.
\* The sort is numpy's quicksort, which sorts a run of at most 16 rows by
\* insertion: rows of the same date keep their order in frames of the sizes
\* modelled here.
RECURSIVE SortValuesDate(_)
SortValuesDate(df) ==
    IF df = <<>> THEN <<>>
    ELSE LET first == CHOOSE d \in {df[i].date : i \in 1..Len(df)} :
                          \A i \in 1..Len(df) : d <= df[i].date
         IN  SelectSeq(df, LAMBDA r : r.date = first)
                \o SortValuesDate(SelectSeq(df, LAMBDA r : r.date # first))

\* The date of every row, repeated dates included.
UniqueDatesPerRow(df) == [i \in 1..Len(df) |-> df[i].date]

\* sorted_df['Date'].unique(): the distinct dates in order of appearance.
RECURSIVE UniqueDates(_)
UniqueDates(df) ==
    IF df = <<>> THEN <<>>
    ELSE <<df[1].date>> \o UniqueDates(SelectSeq(Tail(df), LAMBDA r : r.date # df[1].date))

\* sorted_df[sorted_df['Date'] <= date]
UntilDate(sorted_df, date) == SelectSeq(sorted_df, LAMBDA r : r.date <= date)

PerformancePoint(sorted_df, date) ==
    LET holdings == get_current_holdings(UntilDate(sorted_df, date))
    IN  [Date |-> date, PortfolioValue |-> SumField(holdings.rows, "CurrentValue")]

PerformanceOf(sorted_df) ==
    LET dates == UniqueDates(sorted_df)
    IN  [k \in 1..Len(dates) |-> PerformancePoint(sorted_df, dates[k])]

\* The series opened by a point of value 0 before every date of the ledger.
HistoricalWithOpeningPoint(transactions_df) ==
    <<[Date |-> 0, PortfolioValue |-> 0]>> \o PerformanceOf(SortValuesDate(transactions_df))

calculate_historical_performance(transactions_df) ==
    IF transactions_df = <<>> THEN <<>>
    ELSE PerformanceOf(SortValuesDate(transactions_df))

-----------------------------------------------------------------------------
(* portfolio_analytics.generate_profit_loss_report *)

\* The report made from the tickers still held only.
ReportKeysHeldOnly(transactions_df) ==
    SelectSeq(GroupKeys(transactions_df),
              LAMBDA t : t \in HeldTickers(get_current_holdings(transactions_df)))

\* The tickers the report has a row for, in group order.
ReportKeys(transactions_df) == GroupKeys(transactions_df)

\* One row of report_data.  The unrounded realized and total profit are the
\* fractions realized_num / den and total_num / den, in cents.
ReportRow(ticker, group, current_holdings) ==
    LET buys == OfType(group, "Buy")
        sells == OfType(group, "Sell")
        buy_cost == SumTotal(buys)
        sell_revenue == SumAbsTotal(sells)
        total_bought_shares == SumQty(buys)
        total_sold_shares == SumQty(sells)
        hasAvg == total_bought_shares > 0
        den == IF hasAvg THEN total_bought_shares ELSE 1
        avg_num == IF hasAvg THEN buy_cost ELSE 0
        cost_basis_num == IF avg_num > 0 /\ total_sold_shares > 0
                          THEN avg_num * total_sold_shares ELSE 0
        realized_num == 100 * (sell_revenue * den - cost_basis_num)
        unrealized == IF current_holdings.rows # <<>> /\ current_holdings.cols
                         /\ ticker \in HeldTickers(current_holdings)
                      THEN HoldingOf(current_holdings, ticker).ProfitLoss
                      ELSE 0
        total_num == realized_num + unrealized * den
    IN  [Ticker |-> ticker,
         BuyCost |-> 100 * buy_cost,
         SellRevenue |-> 100 * sell_revenue,
         RealizedProfitLoss |-> RoundDiv(realized_num, den),
         UnrealizedProfitLoss |-> unrealized,
         TotalProfitLoss |-> RoundDiv(total_num, den),
         total_num |-> total_num,
         den |-> den]

ReportData(transactions_df) ==
    LET current_holdings == get_current_holdings(transactions_df)
        keys == ReportKeys(transactions_df)
    IN  [k \in 1..Len(keys) |->
            ReportRow(keys[k], OfTicker(transactions_df, keys[k]), current_holdings)]

\* Whether row a's unrounded total is at least row b's.
TotalGeq(a, b) == a.total_num * b.den >= b.total_num * a.den

\* The rows left in group order.
GroupOrder(report_data) == report_data

\* report_df.sort_values('Total Profit/Loss', ascending=False), on the
\* unrounded totals; rows of equal total keep their order (see SortValuesDate).
RECURSIVE SortValuesTotalDesc(_)
SortValuesTotalDesc(report_data) ==
    IF report_data = <<>> THEN <<>>
    ELSE LET n == Len(report_data)
             top == report_data[CHOOSE i \in 1..n :
                                   \A j \in 1..n : TotalGeq(report_data[i], report_data[j])]
             isTop(r) == TotalGeq(r, top)
         IN  SelectSeq(report_data, isTop)
                \o SortValuesTotalDesc(SelectSeq(report_data, LAMBDA r : ~isTop(r)))

generate_profit_loss_report(transactions_df) ==
    IF transactions_df = <<>> THEN <<>>
    ELSE SortValuesTotalDesc(ReportData(transactions_df))

-----------------------------------------------------------------------------
(* stock_journal.validate_transaction *)

\* raised: the call ended in a KeyError (the holdings frame has no 'Ticker'
\* column) instead of returning.  msg names the message returned.
validate_transaction(transaction, current_holdings) ==
    LET ticker == transaction.ticker
        quantity == transaction.qty
        ret(valid, msg) == [raised |-> FALSE, valid |-> valid, msg |-> msg]
    IN  IF ticker = NoTicker THEN ret(FALSE, "Ticker symbol is required.")
        ELSE IF quantity <= 0 THEN ret(FALSE, "Quantity must be greater than zero.")
        ELSE IF transaction.type = "Sell"
             THEN IF ~current_holdings.cols
                  THEN [raised |-> TRUE, valid |-> FALSE, msg |-> "KeyError"]
                  ELSE IF ticker \notin HeldTickers(current_holdings)
                       THEN ret(FALSE, "Cannot sell. You don't own any shares of this stock.")
                       ELSE IF quantity > HoldingOf(current_holdings, ticker).Shares
                            THEN ret(FALSE, "Cannot sell. You only own fewer shares.")
                            ELSE ret(TRUE, "")
             ELSE ret(TRUE, "")

-----------------------------------------------------------------------------
(* stock_journal.generate_transaction_summary *)

\* One summary row.  The average prices and totals are the amounts that the
\* code formats with two decimals, in cents.
SummaryRow(ticker, ticker_df) ==
    LET buys == OfType(ticker_df, "Buy")
        sells == OfType(ticker_df, "Sell")
        buy_shares == SumQty(buys)
        buy_total == SumTotal(buys)
        sell_shares == SumQty(sells)
        sell_total == Abs(SumTotal(sells))
    IN  [Ticker |-> ticker,
         BuyShares |-> buy_shares,
         BuyAvgPrice |-> IF buy_shares > 0
                         THEN RoundDiv(100 * buy_total, buy_shares) ELSE 0,
         BuyTotal |-> 100 * buy_total,
         SellShares |-> sell_shares,
         SellAvgPrice |-> IF sell_shares > 0
                          THEN RoundDiv(100 * sell_total, sell_shares) ELSE 0,
         SellTotal |-> 100 * sell_total,
         NetShares |-> buy_shares - sell_shares]

\* The tickers in descending order.
SummaryKeysDescending(df) ==
    LET keys == GroupKeys(df)
    IN  [k \in 1..Len(keys) |-> keys[Len(keys) + 1 - k]]

\* df['Ticker'].unique() after sort_values('Ticker'): the tickers in
\* ascending order, a missing ticker (NaN) last; df[df['Ticker'] == NaN]
\* selects no row.
SummaryKeys(df) ==
    GroupKeys(df)
        \o (IF \E i \in 1..Len(df) : df[i].ticker = NoTicker
            THEN <<NoTicker>> ELSE <<>>)

generate_transaction_summary(df) ==
    IF df = <<>> THEN <<>>
    ELSE LET keys == SummaryKeys(df)
         IN  [k \in 1..Len(keys) |->
                 SummaryRow(keys[k],
                            IF keys[k] = NoTicker THEN <<>> ELSE OfTicker(df, keys[k]))]

-----------------------------------------------------------------------------
(* stock_journal.filter_transactions *)

\* The value of a text criterion that is not given, and of a date
\* criterion that is not given.
None == "None"
NoDate == 0

\* Python's truth of an argument: None and the empty text are false; a
\* date is always true.
Truthy(x) == x \notin {None, ""}
TruthyDate(d) == d # NoDate

FilterTicker(filtered_df, ticker) ==
    IF Truthy(ticker) /\ filtered_df # <<>>
    THEN SelectSeq(filtered_df, LAMBDA r : r.ticker = ticker) ELSE filtered_df

FilterType(filtered_df, trans_type) ==
    IF Truthy(trans_type) /\ filtered_df # <<>>
    THEN SelectSeq(filtered_df, LAMBDA r : r.type = trans_type) ELSE filtered_df

FilterStart(filtered_df, start_date) ==
    IF TruthyDate(start_date) /\ filtered_df # <<>>
    THEN SelectSeq(filtered_df, LAMBDA r : r.date >= start_date) ELSE filtered_df

\* The rows dated before end_date only.
FilterEndExclusive(filtered_df, end_date) ==
    IF TruthyDate(end_date) /\ filtered_df # <<>>
    THEN SelectSeq(filtered_df, LAMBDA r : r.date < end_date) ELSE filtered_df

FilterEnd(filtered_df, end_date) ==
    IF TruthyDate(end_date) /\ filtered_df # <<>>
    THEN SelectSeq(filtered_df, LAMBDA r : r.date <= end_date) ELSE filtered_df

\* Every selection makes a new frame; df itself is only read.
filter_transactions(df, ticker, trans_type, start_date, end_date) ==
    FilterEnd(FilterStart(FilterType(FilterTicker(df, ticker), trans_type),
                          start_date),
              end_date)

-----------------------------------------------------------------------------
(* The analytics applied to every bounded ledger of well-formed rows *)

Types == {"Buy", "Sell"}

\* Transactions as section 3 of the specification defines them.
PureRows ==
    {MkRow(d, t, ty, p, q) :
        d \in Dates, t \in Tickers, ty \in Types, p \in 1..MaxPrice, q \in 1..MaxQty}

Ledgers == UNION {[1..n -> PureRows] : n \in 0..MaxLen}

\* Proposed transactions handed to validate_transaction.
Proposals ==
    {MkRow(1, t, ty, 1, q) : t \in Tickers \cup {NoTicker}, ty \in Types, q \in 0..MaxQty}

\* The ledger of the worked example: Buy AAPL 10 at 150, then Sell AAPL 3
\* at 155.
ExampleLedger ==
    <<MkRow(1, "AAPL", "Buy", 150, 10), MkRow(2, "AAPL", "Sell", 155, 3)>>

InitPure ==
    /\ transactions \in Ledgers \cup {ExampleLedger}
    /\ ev = [op |-> "idle"]

CallHoldings ==
    /\ Ready
    /\ ev' = [op |-> "get_current_holdings",
              result |-> get_current_holdings(transactions)]
    /\ transactions' = InputAfterHoldings(transactions)

CallSummary ==
    /\ Ready
    /\ ev' = [op |-> "get_portfolio_summary",
              result |-> get_portfolio_summary(transactions)]
    /\ UNCHANGED transactions

CallHistorical ==
    /\ Ready
    /\ ev' = [op |-> "calculate_historical_performance",
              result |-> calculate_historical_performance(transactions)]
    /\ UNCHANGED transactions

CallReport ==
    /\ Ready
    /\ ev' = [op |-> "generate_profit_loss_report",
              result |-> generate_profit_loss_report(transactions)]
    /\ UNCHANGED transactions

CallTransactionSummary ==
    /\ Ready
    /\ ev' = [op |-> "generate_transaction_summary",
              result |-> generate_transaction_summary(transactions)]
    /\ UNCHANGED transactions

CallValidate ==
    /\ Ready
    /\ \E transaction \in Proposals :
          ev' = [op |-> "validate_transaction",
                 transaction |-> transaction,
                 result |-> validate_transaction(transaction,
                                                 get_current_holdings(transactions))]
    /\ UNCHANGED transactions

NextPure ==
    \/ CallHoldings
    \/ CallSummary
    \/ CallHistorical
    \/ CallReport
    \/ CallTransactionSummary
    \/ CallValidate

SpecPure == InitPure /\ [][NextPure]_vars

\* filter_transactions applied to every bounded ledger, each criterion
\* given or not.
CallFilter(ticker, trans_type, start_date, end_date) ==
    /\ Ready
    /\ ev' = [op |-> "filter_transactions",
              ticker |-> ticker, trans_type |-> trans_type,
              start_date |-> start_date, end_date |-> end_date,
              result |-> filter_transactions(transactions, ticker, trans_type,
                                             start_date, end_date)]
    /\ UNCHANGED transactions

NextFilter ==
    \E ticker \in Tickers \cup {None, ""}, trans_type \in Types \cup {None, ""},
       start_date \in Dates \cup {NoDate}, end_date \in Dates \cup {NoDate} :
        CallFilter(ticker, trans_type, start_date, end_date)

SpecFilter == InitPure /\ [][NextFilter]_vars

-----------------------------------------------------------------------------
(* app.py: the holdings frame as the sell validation reads and updates it *)

\* Only the Ticker and Shares columns are read or written by the validation.
TickerShares(holdings) ==
    [i \in 1..Len(holdings.rows) |->
        [Ticker |-> holdings.rows[i].Ticker, Shares |-> holdings.rows[i].Shares]]

\* ticker in holdings['Ticker'].values; a missing ticker (NaN) equals nothing.
InHoldings(rows, ticker) ==
    ticker # NoTicker /\ \E i \in 1..Len(rows) : rows[i].Ticker = ticker

\* The shares owned read one too high.
SharesOfOneMore(rows, ticker) ==
    rows[CHOOSE i \in 1..Len(rows) : rows[i].Ticker = ticker].Shares + 1

\* holdings.loc[holdings['Ticker'] == ticker, 'Shares'].values[0]
SharesOf(rows, ticker) ==
    rows[CHOOSE i \in 1..Len(rows) :
            /\ rows[i].Ticker = ticker
            /\ \A j \in 1..(i - 1) : rows[j].Ticker # ticker].Shares

\* Shares += delta on the ticker's row.
AddShares(rows, ticker, delta) ==
    [i \in 1..Len(rows) |->
        IF rows[i].Ticker = ticker /\ ticker # NoTicker
        THEN [rows[i] EXCEPT !.Shares = @ + delta] ELSE rows[i]]

\* A Buy of a ticker not yet held leaves the validation holdings as they were.
NewHoldingForgotten(rows, ticker, quantity) == rows

\* pd.concat([holdings, new_holding])
NewHolding(rows, ticker, quantity) ==
    Append(rows, [Ticker |-> ticker, Shares |-> quantity])

\* What an operation leaves in ev.
\* rows: the rows submitted; accepted: one flag per row, TRUE when the row was
\* committed; failed: the failures reported; status: "ok", "rejected" (the
\* whole file was refused) or "exception"; mode: "append", "replace" or
\* "download"; columns: whether an uploaded file had its required columns.
Event(op, rows, columns, accepted, failed, status, mode) ==
    [op |-> op, rows |-> rows, columns |-> columns, accepted |-> accepted,
     failed |-> failed, status |-> status, mode |-> mode]

Failure(idx, ticker, reason) == [idx |-> idx, ticker |-> ticker, reason |-> reason]

\* The rows of a submission that were accepted, in submission order.
RECURSIVE AcceptedRows(_, _)
AcceptedRows(rows, accepted) ==
    IF rows = <<>> THEN <<>>
    ELSE (IF accepted[1] THEN <<rows[1]>> ELSE <<>>)
            \o AcceptedRows(Tail(rows), Tail(accepted))

\* The new rows put before the ledger's.
ConcatInFront(df, new_rows) == new_rows \o df

\* pd.concat([st.session_state['transactions'], new_rows], ignore_index=True)
Concat(df, new_rows) == df \o new_rows

-----------------------------------------------------------------------------
(* app.py: single transaction form *)

Brokers == {"Select Broker", "Other"}

\* The sell check of the single form: "ok", the error shown, or "KeyError"
\* when the holdings frame has no 'Ticker' column.
SingleSellCheck(ledger, ticker, quantity) ==
    LET current_holdings == get_current_holdings(ledger)
        rows == TickerShares(current_holdings)
    IN  IF ~current_holdings.cols THEN "KeyError"
        ELSE IF InHoldings(rows, ticker)
             THEN IF quantity > SharesOf(rows, ticker) THEN "insufficient" ELSE "ok"
             ELSE "not_owned"

\* The outcome of pressing "Add Transaction": "ok" or the error.
SingleOutcome(ledger, ticker, type, price, quantity, broker) ==
    IF ticker = NoTicker THEN "no_ticker"
    ELSE IF broker = "Select Broker" THEN "no_broker"
    ELSE IF price <= 0 THEN "bad_price"
    ELSE IF quantity <= 0 THEN "bad_quantity"
    ELSE IF type = "Sell" THEN SingleSellCheck(ledger, ticker, quantity)
    ELSE "ok"

SingleAdd(date, ticker, type, price, quantity, broker) ==
    LET outcome == SingleOutcome(transactions, ticker, type, price, quantity, broker)
        new_transaction == MkRow(date, ticker, type, price, quantity)
    IN  /\ Len(transactions) < MaxLedger
        /\ transactions' = IF outcome = "ok"
                           THEN Concat(transactions, <<new_transaction>>)
                           ELSE transactions
        /\ ev' = Event("single", <<new_transaction>>, TRUE, <<outcome = "ok">>,
                       IF outcome \in {"ok", "KeyError"} THEN <<>>
                       ELSE <<Failure(1, ticker, outcome)>>,
                       IF outcome = "KeyError" THEN "exception" ELSE "ok", "append")

-----------------------------------------------------------------------------
(* app.py: batch entry form *)

\* The loop over the slots from slot i on.  st carries the holdings used for
\* validation, the accepted flags, the failure list and whether a KeyError
\* ended the run.
RECURSIVE BatchLoop(_, _, _)
BatchLoop(slots, i, st) ==
    IF i > Len(slots) \/ st.raised THEN st
    ELSE LET t == slots[i]
             skip == [st EXCEPT !.accepted = Append(@, FALSE)]
         IN  IF t.ticker = NoTicker THEN BatchLoop(slots, i + 1, skip)
             ELSE IF ~st.cols THEN [skip EXCEPT !.raised = TRUE]
             ELSE IF t.type = "Sell" /\ ~InHoldings(st.rows, t.ticker)
                  THEN BatchLoop(slots, i + 1,
                         [skip EXCEPT !.failed =
                             Append(@, Failure(i, t.ticker, "not_owned"))])
             ELSE IF t.type = "Sell" /\ t.qty > SharesOf(st.rows, t.ticker)
                  THEN BatchLoop(slots, i + 1,
                         [skip EXCEPT !.failed =
                             Append(@, Failure(i, t.ticker, "insufficient"))])
             ELSE BatchLoop(slots, i + 1,
                     [st EXCEPT
                        !.accepted = Append(@, TRUE),
                        !.rows = IF t.type = "Buy"
                                 THEN IF InHoldings(st.rows, t.ticker)
                                      THEN AddShares(st.rows, t.ticker, t.qty)
                                      ELSE NewHolding(st.rows, t.ticker, t.qty)
                                 ELSE AddShares(st.rows, t.ticker, -t.qty)])

LoopStart(ledger) ==
    LET current_holdings == get_current_holdings(ledger)
    IN  [cols |-> current_holdings.cols, rows |-> TickerShares(current_holdings),
         accepted |-> <<>>, failed |-> <<>>, raised |-> FALSE]

\* Flags padded to one per submitted row (a run ended by an exception
\* accepted none of the rows).
NoneAccepted(rows) == [i \in 1..Len(rows) |-> FALSE]

BatchEntry(slots) ==
    LET st == BatchLoop(slots, 1, LoopStart(transactions))
        accepted == IF st.raised THEN NoneAccepted(slots) ELSE st.accepted
        all_new_transactions == AcceptedRows(slots, accepted)
    IN  /\ Len(transactions) + Len(slots) <= MaxLedger
        /\ transactions' = Concat(transactions, all_new_transactions)
        /\ ev' = Event("batch", slots, TRUE, accepted,
                       IF st.raised THEN <<>> ELSE st.failed,
                       IF st.raised THEN "exception" ELSE "ok", "append")

-----------------------------------------------------------------------------
(* app.py: bulk CSV import *)

\* A date cell that pd.to_datetime cannot parse.
BadDate == 0

\* The first structural defect the upload stops on, or "ok".  A Ticker
\* column with rows and no text in any of them is read as a column of
\* numbers, and .str.upper() on it raises AttributeError ("no_str_tickers").
BulkFormat(file) ==
    IF ~file.columns THEN "missing_columns"
    ELSE IF \E i \in 1..Len(file.rows) : file.rows[i].date = BadDate THEN "bad_dates"
    ELSE IF file.rows # <<>> /\ \A i \in 1..Len(file.rows) : file.rows[i].ticker = NoTicker
         THEN "no_str_tickers"
    ELSE IF \E i \in 1..Len(file.rows) : file.rows[i].type \notin {"Buy", "Sell"}
         THEN "invalid_types"
    ELSE "ok"

\* imported_df['Total'] = Price * Quantity * (-1 if Sell else 1)
WithTotals(rows) ==
    [i \in 1..Len(rows) |->
        [rows[i] EXCEPT !.total = rows[i].price * rows[i].qty
                                    * (IF rows[i].type = "Sell" THEN -1 ELSE 1)]]

\* The validation loop over imported_df from row i on, on holdings_copy.
RECURSIVE BulkLoop(_, _, _)
BulkLoop(imported_df, i, st) ==
    IF i > Len(imported_df) \/ st.raised THEN st
    ELSE LET row == imported_df[i]
             invalid(reason) ==
                 [st EXCEPT !.accepted = Append(@, FALSE),
                            !.failed = Append(@, Failure(i, row.ticker, reason))]
             valid(rows) ==
                 [st EXCEPT !.accepted = Append(@, TRUE), !.rows = rows]
         IN  IF row.type \in {"Buy", "Sell"} /\ ~st.cols
             THEN [st EXCEPT !.raised = TRUE]
             ELSE IF row.type = "Sell"
             THEN IF InHoldings(st.rows, row.ticker)
                  THEN IF row.qty > SharesOf(st.rows, row.ticker)
                       THEN BulkLoop(imported_df, i + 1, invalid("insufficient"))
                       ELSE BulkLoop(imported_df, i + 1,
                                valid(AddShares(st.rows, row.ticker, -row.qty)))
                  ELSE BulkLoop(imported_df, i + 1, invalid("not_owned"))
             ELSE IF row.type = "Buy"
             THEN IF InHoldings(st.rows, row.ticker)
                  THEN BulkLoop(imported_df, i + 1,
                           valid(AddShares(st.rows, row.ticker, row.qty)))
                  ELSE BulkLoop(imported_df, i + 1,
                           valid(NewHolding(st.rows, row.ticker, row.qty)))
             ELSE BulkLoop(imported_df, i + 1, valid(st.rows))

BulkImport(file) ==
    LET format == BulkFormat(file)
        imported_df == WithTotals(file.rows)
        st == BulkLoop(imported_df, 1, LoopStart(transactions))
        accepted == IF format # "ok" \/ st.raised
                    THEN NoneAccepted(file.rows) ELSE st.accepted
        valid_transactions == AcceptedRows(imported_df, accepted)
    IN  /\ Len(transactions) + Len(file.rows) <= MaxLedger
        /\ transactions' = Concat(transactions, valid_transactions)
        /\ ev' = Event("bulk", file.rows, file.columns, accepted,
                       IF format = "no_str_tickers" \/ (format = "ok" /\ st.raised)
                       THEN <<>>
                       ELSE IF format # "ok" THEN <<Failure(0, NoTicker, format)>>
                       ELSE st.failed,
                       IF format = "no_str_tickers" \/ (format = "ok" /\ st.raised)
                       THEN "exception"
                       ELSE IF format # "ok" THEN "rejected" ELSE "ok",
                       "append")

-----------------------------------------------------------------------------
(* app.py: sidebar import *)

ImportOptions == {"Append to existing data", "Replace existing data"}

\* "rejected": a required column is missing; "exception": a date does not
\* parse and pd.to_datetime raises; else "ok".
SidebarFormat(file) ==
    IF ~file.columns THEN "rejected"
    ELSE IF \E i \in 1..Len(file.rows) : file.rows[i].date = BadDate THEN "exception"
    ELSE "ok"

SidebarImport(file, option) ==
    LET format == SidebarFormat(file)
        imported_df == file.rows
        replace == option = "Replace existing data"
    IN  /\ Len(transactions) + Len(file.rows) <= MaxLedger
        /\ transactions' = IF format # "ok" THEN transactions
                           ELSE IF replace THEN imported_df
                           ELSE Concat(transactions, imported_df)
        /\ ev' = Event("sidebar", file.rows, file.columns,
                       [i \in 1..Len(file.rows) |-> format = "ok"],
                       IF format = "rejected"
                       THEN <<Failure(0, NoTicker, "missing_columns")>> ELSE <<>>,
                       format,
                       IF replace THEN "replace" ELSE "append")

-----------------------------------------------------------------------------
(* app.py: sample data generator *)

SampleActions == {"Replace existing data", "Append to existing data", "Download as CSV"}

\* holdings[ticker] of the generator after the rows generated so far.
GeneratedShares(sample, ticker) ==
    SumQty(OfTicker(NegateSells(sample), ticker))

\* Whether the generator can produce these rows: dates in ascending order,
\* a Buy when nothing of the ticker is held, else a Buy or a Sell of at most
\* what is held.
CanGenerate(sample) ==
    \A i \in 1..Len(sample) :
        LET held == GeneratedShares(SubSeq(sample, 1, i - 1), sample[i].ticker)
        IN  /\ i > 1 => sample[i - 1].date <= sample[i].date
            /\ sample[i].type = "Sell" => held > 0 /\ sample[i].qty <= held

GenerateSample(sample_transactions, action) ==
    LET replace == action = "Replace existing data"
        append == action = "Append to existing data"
    IN  /\ CanGenerate(sample_transactions)
        /\ Len(transactions) + Len(sample_transactions) <= MaxLedger
        /\ transactions' = IF replace THEN sample_transactions
                           ELSE IF append
                                THEN Concat(transactions, sample_transactions)
                                ELSE transactions
        /\ ev' = Event("sample", sample_transactions, TRUE,
                       [i \in 1..Len(sample_transactions) |-> replace \/ append],
                       <<>>, "ok",
                       IF replace THEN "replace"
                       ELSE IF append THEN "append" ELSE "download")

-----------------------------------------------------------------------------
(* The application *)

\* Rows the forms can produce: the widgets keep price and quantity positive.
FormRows ==
    {MkRow(d, t, ty, p, q) :
        d \in Dates, t \in Tickers, ty \in Types, p \in 1..MaxFormPrice, q \in 1..MaxQty}

\* A batch slot whose ticker field was left empty.
EmptySlot == MkRow(1, NoTicker, "Buy", 1, 1)

\* CSV rows with one defect each: an unparseable date, no ticker, a type
\* that is neither Buy nor Sell, a price or a quantity that is not positive.
DefectRows ==
    {MkRow(BadDate, "A", "Buy", 1, 1),
     MkRow(1, NoTicker, "Buy", 1, 1),
     MkRow(1, NoTicker, "Sell", 1, 1),
     MkRow(1, "A", "Hold", 1, 1),
     MkRow(1, "A", "Buy", 0, 1),
     MkRow(1, "A", "Buy", 1, 0),
     MkRow(1, "A", "Sell", 1, 0),
     MkRow(1, "A", "Sell", 1, -1)}

CsvRows == FormRows \cup DefectRows

SeqsUpTo(S, n) == UNION {[1..k -> S] : k \in 0..n}

\* Uploaded files: with the required columns and any rows, or lacking one.
CsvFiles ==
    {[columns |-> TRUE, rows |-> rows] : rows \in SeqsUpTo(CsvRows, MaxRows)}
        \cup {[columns |-> FALSE, rows |-> <<r>>] : r \in FormRows}

Init ==
    /\ transactions = <<>>
    /\ ev = [op |-> "idle"]

\* The script run ends and the page waits for the next interaction; what the
\* run reported is gone with the next run.
Rerun ==
    /\ ~Ready
    /\ ev' = [op |-> "idle"]
    /\ UNCHANGED transactions

\* An interaction starts a script run only when none is under way.
Next ==
    \/ Ready /\ \E d \in Dates, t \in Tickers \cup {NoTicker}, ty \in Types,
                    p \in 1..MaxFormPrice, q \in 1..MaxQty, b \in Brokers :
                        SingleAdd(d, t, ty, p, q, b)
    \/ Ready /\ \E slots \in [1..MaxRows -> FormRows \cup {EmptySlot}] :
                        BatchEntry(slots)
    \/ Ready /\ \E file \in CsvFiles : BulkImport(file)
    \/ Ready /\ \E file \in CsvFiles, option \in ImportOptions :
                        SidebarImport(file, option)
    \/ Ready /\ \E sample \in SeqsUpTo(FormRows, MaxRows) \ {<<>>},
                    action \in SampleActions :
                        GenerateSample(sample, action)
    \/ Rerun

Spec == Init /\ [][Next]_vars

\* The application used through the entry paths that validate sells only:
\* the single form, the batch form and the bulk CSV import.
NextValidating ==
    \/ Ready /\ \E d \in Dates, t \in Tickers \cup {NoTicker}, ty \in Types,
                    p \in 1..MaxFormPrice, q \in 1..MaxQty, b \in Brokers :
                        SingleAdd(d, t, ty, p, q, b)
    \/ Ready /\ \E slots \in [1..MaxRows -> FormRows \cup {EmptySlot}] :
                        BatchEntry(slots)
    \/ Ready /\ \E file \in CsvFiles : BulkImport(file)
    \/ Rerun

SpecValidating == Init /\ [][NextValidating]_vars

-----------------------------------------------------------------------------
(* app.py: the batch entry form, one step per statement group *)

\* "Add All Transactions" was pressed: the holdings are computed and the two
\* lists start empty.  ev holds the position of the run.
BatchSubmit(slots) ==
    /\ Ready
    /\ Len(transactions) < MaxLedger
    /\ ev' = [op |-> "batch_loop", slots |-> slots, i |-> 1,
              st |-> LoopStart(transactions)]
    /\ UNCHANGED transactions

\* A pass of the loop that also writes the accepted row into the ledger.
BatchRowWritingThrough ==
    /\ ev.op = "batch_loop"
    /\ ev.i <= Len(ev.slots) /\ ~ev.st.raised
    /\ LET st == BatchLoop(SubSeq(ev.slots, 1, ev.i), ev.i, ev.st)
       IN  /\ ev' = [ev EXCEPT !.i = @ + 1, !.st = st]
           /\ transactions' = IF ~st.raised /\ st.accepted[ev.i]
                              THEN Concat(transactions, <<ev.slots[ev.i]>>)
                              ELSE transactions

\* One pass of the loop over the slots: slot i is skipped, refused or put on
\* the list of new transactions, and the holdings of the run are updated.
BatchRow ==
    /\ ev.op = "batch_loop"
    /\ ev.i <= Len(ev.slots) /\ ~ev.st.raised
    /\ ev' = [ev EXCEPT !.i = @ + 1,
                        !.st = BatchLoop(SubSeq(ev.slots, 1, ev.i), ev.i, ev.st)]
    /\ UNCHANGED transactions

\* A KeyError ends the run before the list is written.
BatchRaise ==
    /\ ev.op = "batch_loop"
    /\ ev.st.raised
    /\ ev' = Event("batch", ev.slots, TRUE, NoneAccepted(ev.slots), <<>>,
                   "exception", "append")
    /\ UNCHANGED transactions

\* After the loop the list of new transactions goes into the ledger.
BatchCommit ==
    /\ ev.op = "batch_loop"
    /\ ev.i > Len(ev.slots) /\ ~ev.st.raised
    /\ transactions' = Concat(transactions, AcceptedRows(ev.slots, ev.st.accepted))
    /\ ev' = Event("batch", ev.slots, TRUE, ev.st.accepted, ev.st.failed,
                   "ok", "append")

NextBatch ==
    \/ \E slots \in [1..MaxRows -> FormRows \cup {EmptySlot}] : BatchSubmit(slots)
    \/ BatchRow
    \/ BatchRaise
    \/ BatchCommit
    \/ Rerun

SpecBatch == Init /\ [][NextBatch]_vars

-----------------------------------------------------------------------------
(* app.py: the costs of a transaction *)

MaxFeeRate == 3   \* commission rates are 0..MaxFeeRate percent
MaxVatRate == 3   \* VAT rates are 0..MaxVatRate percent

\* net_total = total - (fee + vat) if Buy else total + (fee + vat)
net_total_of(total, fee, vat, transaction_type) ==
    IF transaction_type = "Buy" THEN total - (fee + vat) ELSE total + (fee + vat)

\* Total, fee, VAT and net total of a transaction, in 1/10000 of a currency
\* unit; the rates are whole percents, so every product is exact.
TransactionCosts(price, quantity, transaction_type, fee_rate, vat_rate) ==
    LET total == calculate_transaction_total(price, quantity, transaction_type)
        fee == Abs(total) * fee_rate * 100
        vat == Abs(total) * fee_rate * vat_rate
    IN  [total |-> 10000 * total, fee |-> fee, vat |-> vat,
         net_total |-> net_total_of(10000 * total, fee, vat, transaction_type)]

\* A script run of the single transaction form shows the costs of what has
\* been entered.
TransactionDetails(price, quantity, transaction_type, fee_rate, vat_rate) ==
    /\ price > 0 /\ quantity > 0
    /\ ev' = [op |-> "transaction_details",
              price |-> price,
              quantity |-> quantity,
              type |-> transaction_type,
              fee_rate |-> fee_rate,
              vat_rate |-> vat_rate,
              costs |-> TransactionCosts(price, quantity, transaction_type,
                                         fee_rate, vat_rate)]
    /\ UNCHANGED transactions

NextCosts ==
    \/ Ready /\ \E p \in 1..MaxPrice, q \in 1..MaxQty, ty \in Types,
                    fr \in 0..MaxFeeRate, vr \in 0..MaxVatRate :
                        TransactionDetails(p, q, ty, fr, vr)
    \/ Rerun

SpecCosts == Init /\ [][NextCosts]_vars

-----------------------------------------------------------------------------
(* Properties of the analytics (checked under SpecPure) *)

\* Sum of the Buy quantities of a ticker minus the sum of its Sell quantities.
RECURSIVE NetQty(_, _)
NetQty(ledger, ticker) ==
    IF ledger = <<>> THEN 0
    ELSE NetQty(Tail(ledger), ticker)
            + (IF ledger[1].ticker # ticker THEN 0
               ELSE IF ledger[1].type = "Buy" THEN ledger[1].qty
               ELSE IF ledger[1].type = "Sell" THEN -ledger[1].qty
               ELSE 0)

TickersIn(ledger) == {ledger[i].ticker : i \in 1..Len(ledger)}

RowsOf(frame, ticker) == {i \in 1..Len(frame) : frame[i].Ticker = ticker}

\* C1: get_current_holdings has a row for ticker t exactly when the Buy
\* quantities of t minus its Sell quantities are positive, it has one such
\* row, and the row's Shares is that net quantity.
C1_HoldingsAreNetShares ==
    ev.op = "get_current_holdings" =>
        \A t \in Tickers :
            LET net == NetQty(transactions, t)
                at == RowsOf(ev.result.rows, t)
            IN  /\ net > 0 => Cardinality(at) = 1
                              /\ \A i \in at : ev.result.rows[i].Shares = net
                /\ net <= 0 => at = {}

\* A ledger with a partly sold ticker that is held and another ticker, sold
\* without being bought, that is not.
C1_Witness ==
    /\ ev.op = "get_current_holdings"
    /\ \E t, u \in Tickers :
         /\ \E i \in 1..Len(transactions) :
                transactions[i].ticker = t /\ transactions[i].type = "Sell"
         /\ RowsOf(ev.result.rows, t) # {}
         /\ u \in TickersIn(transactions)
         /\ RowsOf(ev.result.rows, u) = {}

\* C4: the Portfolio Value of the last point of
\* calculate_historical_performance equals current_value of
\* get_portfolio_summary on the same ledger, whatever the order of its rows.
C4_LastPointIsCurrentValue ==
    (ev.op = "calculate_historical_performance" /\ ev.result # <<>>) =>
        ev.result[Len(ev.result)].PortfolioValue
            = get_portfolio_summary(transactions).current_value

\* C9: validate_transaction returns valid exactly when the ticker is not
\* empty, the quantity is positive and, for a Sell, the holdings have the
\* ticker with at least that many shares; otherwise it returns invalid with
\* a message.
C9_ValidateReturns ==
    ev.op = "validate_transaction" =>
        LET t == ev.transaction
            should == /\ t.ticker # NoTicker
                      /\ t.qty > 0
                      /\ t.type = "Sell" => NetQty(transactions, t.ticker) >= t.qty
        IN  /\ ~ev.result.raised
            /\ ev.result.valid <=> should
            /\ ~should => ev.result.msg # ""

\* C10: the report has exactly one row for every ticker of the ledger, held
\* or not, and the rows of tickers that are not held have no unrealized
\* profit.
C10_ReportCoversEveryTicker ==
    ev.op = "generate_profit_loss_report" =>
        /\ \A t \in Tickers :
             Cardinality(RowsOf(ev.result, t))
                = (IF t \in TickersIn(transactions) THEN 1 ELSE 0)
        /\ \A i \in 1..Len(ev.result) :
             NetQty(transactions, ev.result[i].Ticker) <= 0
                => ev.result[i].UnrealizedProfitLoss = 0

\* A report with a row for a ticker fully sold (net zero), beside the row of
\* a ticker that is held.
C10_Witness ==
    /\ ev.op = "generate_profit_loss_report"
    /\ \E i, j \in 1..Len(ev.result) :
         /\ NetQty(transactions, ev.result[i].Ticker) = 0
         /\ ev.result[i].UnrealizedProfitLoss = 0
         /\ NetQty(transactions, ev.result[j].Ticker) > 0

-----------------------------------------------------------------------------
(* Properties of the entry paths (checked under Spec) *)

\* The entry paths that validate sells.
Validating == {"single", "batch", "bulk"}

IsPrefix(s, t) == Len(s) <= Len(t) /\ SubSeq(t, 1, Len(s)) = s

\* Whether the holdings of the ledger have the ticker, and with how many shares.
StartHeld(ledger, ticker) == ticker \in HeldTickers(get_current_holdings(ledger))

StartShares(ledger, ticker) ==
    IF StartHeld(ledger, ticker)
    THEN HoldingOf(get_current_holdings(ledger), ticker).Shares ELSE 0

\* Buy minus Sell quantities of the ticker over the accepted rows before row n.
RECURSIVE AcceptedNet(_, _, _, _)
AcceptedNet(rows, accepted, n, ticker) ==
    IF n <= 1 THEN 0
    ELSE AcceptedNet(rows, accepted, n - 1, ticker)
            + (IF ~accepted[n - 1] \/ rows[n - 1].ticker # ticker THEN 0
               ELSE IF rows[n - 1].type = "Buy" THEN rows[n - 1].qty
               ELSE IF rows[n - 1].type = "Sell" THEN -rows[n - 1].qty
               ELSE 0)

BoughtBefore(rows, accepted, n, ticker) ==
    \E i \in 1..(n - 1) :
        accepted[i] /\ rows[i].ticker = ticker /\ rows[i].type = "Buy"

\* Shares of the row's ticker that row n of a submission can sell.
AvailableAt(ledger, e, n) ==
    StartShares(ledger, e.rows[n].ticker)
        + AcceptedNet(e.rows, e.accepted, n, e.rows[n].ticker)

\* Whether the row's ticker is among the holdings when row n is validated.
PresentAt(ledger, e, n) ==
    /\ e.rows[n].ticker # NoTicker
    /\ \/ StartHeld(ledger, e.rows[n].ticker)
       \/ BoughtBefore(e.rows, e.accepted, n, e.rows[n].ticker)

\* C2: on the validating paths a Sell of a ticker that is not held, or of
\* more shares than are held, is not accepted, and the ledger grows by the
\* accepted rows as submitted and by nothing else.
C2_UncoveredSellLeavesNoTrace ==
    [][ev'.op \in Validating =>
        /\ \A n \in 1..Len(ev'.rows) :
             (/\ ev'.rows[n].type = "Sell"
              /\ \/ ~PresentAt(transactions, ev', n)
                 \/ ev'.rows[n].qty > AvailableAt(transactions, ev', n))
                => ~ev'.accepted[n]
        /\ transactions' = transactions \o AcceptedRows(ev'.rows, ev'.accepted)]_vars

\* A Sell of more shares than the ledger holds of a ticker it does hold was
\* refused, the ledger still holding the ticker.
C2_Witness ==
    /\ ev.op \in Validating
    /\ \E n \in 1..Len(ev.rows), k \in 1..Len(ev.failed) :
         /\ ev.rows[n].type = "Sell"
         /\ ~ev.accepted[n]
         /\ ev.failed[k].idx = n
         /\ ev.failed[k].reason = "insufficient"
         /\ StartHeld(transactions, ev.rows[n].ticker)

\* C3 as claimed: in a batch a Sell in row n is accepted exactly when its
\* quantity is at most the shares held at the start plus the Buy minus the
\* Sell quantities of the rows accepted before it.
C3_SellAcceptedIffCovered ==
    [][(ev'.op \in {"batch", "bulk"} /\ ev'.status # "rejected") =>
        \A n \in 1..Len(ev'.rows) :
            ev'.rows[n].type = "Sell" =>
                (ev'.accepted[n]
                    <=> ev'.rows[n].qty <= AvailableAt(transactions, ev', n))]_vars

\* C3 as amended: a Sell of a positive quantity of a ticker is accepted
\* exactly when the quantity is at most the shares held at the start plus
\* the Buy minus the Sell quantities of the rows accepted before it.
C3_PositiveSellAcceptedIffCovered ==
    [][(ev'.op \in {"batch", "bulk"} /\ ev'.status # "rejected") =>
        \A n \in 1..Len(ev'.rows) :
            (/\ ev'.rows[n].type = "Sell"
             /\ ev'.rows[n].ticker # NoTicker
             /\ ev'.rows[n].qty > 0) =>
                (ev'.accepted[n]
                    <=> ev'.rows[n].qty <= AvailableAt(transactions, ev', n))]_vars

\* A batch on an empty ledger whose second row sold shares its first row bought.
C3_Witness ==
    /\ ev.op \in {"batch", "bulk"}
    /\ Len(ev.rows) >= 2
    /\ ev.rows[1].type = "Buy" /\ ev.accepted[1]
    /\ ev.rows[2].type = "Sell" /\ ev.accepted[2] /\ ev.rows[2].qty > 0
    /\ ev.rows[2].ticker = ev.rows[1].ticker
    /\ transactions = ev.rows

Defective(e) ==
    \/ ~e.columns
    \/ \E i \in 1..Len(e.rows) : e.rows[i].date = BadDate
    \/ \E i \in 1..Len(e.rows) : e.rows[i].type \notin {"Buy", "Sell"}

\* C6: an import of a file that lacks a required column, or has a date that
\* does not parse or a type other than Buy and Sell, changes nothing.
C6_DefectiveFileRejected ==
    [][(ev'.op \in {"bulk", "sidebar"} /\ Defective(ev'))
            => (transactions' = transactions
                /\ \A n \in 1..Len(ev'.rows) : ~ev'.accepted[n])]_vars

\* Whether row n of a submission is valid: it has a ticker and a positive
\* quantity and, if a Sell, is covered by the holdings as updated.
ValidAt(ledger, e, n) ==
    /\ e.rows[n].ticker # NoTicker
    /\ e.rows[n].qty > 0
    /\ e.rows[n].type = "Sell" =>
          /\ PresentAt(ledger, e, n)
          /\ e.rows[n].qty <= AvailableAt(ledger, e, n)

ReportedAt(e, n) == \E k \in 1..Len(e.failed) : e.failed[k].idx = n

\* A row that was submitted: a batch slot counts when its ticker is filled in.
Submitted(e, n) == e.op = "batch" => e.rows[n].ticker # NoTicker

\* C7: in a batch every submitted row is either appended or reported as
\* failed, never both; the rows appended are the valid rows, in order.
C7_PartialSuccess ==
    [][(ev'.op \in {"batch", "bulk"} /\ ~Defective(ev')) =>
        /\ \A n \in 1..Len(ev'.rows) :
             Submitted(ev', n) =>
                /\ ev'.accepted[n] <=> ~ReportedAt(ev', n)
                /\ ev'.accepted[n] <=> ValidAt(transactions, ev', n)
        /\ transactions' = transactions \o AcceptedRows(ev'.rows, ev'.accepted)]_vars

\* C8: every row of the ledger has a ticker, a positive price, a positive
\* quantity and the type Buy or Sell.
C8_LedgerRowsWellFormed ==
    \A i \in 1..Len(transactions) :
        /\ transactions[i].ticker # NoTicker
        /\ transactions[i].price > 0
        /\ transactions[i].qty > 0
        /\ transactions[i].type \in {"Buy", "Sell"}

-----------------------------------------------------------------------------
(* Properties of the holdings' cost and valuation (checked under SpecPure) *)

\* Sum of Total, and of Quantity, over the Buy rows of a ticker.
RECURSIVE BuyTotalOf(_, _)
BuyTotalOf(ledger, ticker) ==
    IF ledger = <<>> THEN 0
    ELSE BuyTotalOf(Tail(ledger), ticker)
            + (IF ledger[1].ticker = ticker /\ ledger[1].type = "Buy"
               THEN ledger[1].total ELSE 0)

RECURSIVE BuyQtyOf(_, _)
BuyQtyOf(ledger, ticker) ==
    IF ledger = <<>> THEN 0
    ELSE BuyQtyOf(Tail(ledger), ticker)
            + (IF ledger[1].ticker = ticker /\ ledger[1].type = "Buy"
               THEN ledger[1].qty ELSE 0)

\* The Sell rows of a ticker that leave its net position positive.
SellsLeavingHeld(ledger, ticker) ==
    {s \in PureRows : /\ s.ticker = ticker
                      /\ s.type = "Sell"
                      /\ NetQty(ledger, ticker) - s.qty > 0}

\* C11: the Average Cost of a holding is the sum of Total over the sum of
\* Quantity of the ticker's Buy rows (to the cent), and the holdings of the
\* ledger with a further Sell of the ticker that leaves it held show the
\* same Average Cost.
C11_AverageCostOfBuysOnly ==
    ev.op = "get_current_holdings" =>
        \A i \in 1..Len(ev.result.rows) :
            LET row == ev.result.rows[i]
                t == row.Ticker
            IN  /\ row.AverageCost
                     = RoundDiv(100 * BuyTotalOf(transactions, t),
                                BuyQtyOf(transactions, t))
                /\ \A s \in SellsLeavingHeld(transactions, t) :
                     LET after == get_current_holdings(Append(transactions, s))
                     IN  /\ t \in HeldTickers(after)
                         /\ HoldingOf(after, t).AverageCost = row.AverageCost

\* Holdings of a ticker bought twice at different prices and partly sold,
\* with a further Sell still possible.
C11_Witness ==
    /\ ev.op = "get_current_holdings"
    /\ \E i \in 1..Len(ev.result.rows) :
         LET t == ev.result.rows[i].Ticker
         IN  /\ \E j, k \in 1..Len(transactions) :
                   /\ transactions[j].ticker = t /\ transactions[j].type = "Buy"
                   /\ transactions[k].ticker = t /\ transactions[k].type = "Buy"
                   /\ transactions[j].price # transactions[k].price
             /\ \E j \in 1..Len(transactions) :
                   transactions[j].ticker = t /\ transactions[j].type = "Sell"
             /\ SellsLeavingHeld(transactions, t) # {}
\* The position in the ledger of the last row of a ticker.
LastIndexOf(ledger, ticker) ==
    CHOOSE i \in 1..Len(ledger) :
        /\ ledger[i].ticker = ticker
        /\ \A j \in (i + 1)..Len(ledger) : ledger[j].ticker # ticker

\* C12: a holding is valued at the Price of the last row of its ticker in
\* the order of the ledger passed in: Current Value = Shares x that price.
C12_ValuedAtLastRowPrice ==
    ev.op = "get_current_holdings" =>
        \A i \in 1..Len(ev.result.rows) :
            LET row == ev.result.rows[i]
                last == transactions[LastIndexOf(transactions, row.Ticker)]
            IN  row.CurrentValue = 100 * row.Shares * last.price

\* Holdings of a ticker whose last row in the ledger is dated before an
\* earlier row of a different price.
C12_Witness ==
    /\ ev.op = "get_current_holdings"
    /\ \E i \in 1..Len(ev.result.rows) :
         LET t == ev.result.rows[i].Ticker
             n == LastIndexOf(transactions, t)
         IN  \E j \in 1..(n - 1) :
                /\ transactions[j].ticker = t
                /\ transactions[j].date > transactions[n].date
                /\ transactions[j].price # transactions[n].price
-----------------------------------------------------------------------------
(* Properties of the profit and loss report (checked under SpecPure) *)

\* Sum of |Total|, and of Quantity, over the Sell rows of a ticker.
RECURSIVE SellRevenueOf(_, _)
SellRevenueOf(ledger, ticker) ==
    IF ledger = <<>> THEN 0
    ELSE SellRevenueOf(Tail(ledger), ticker)
            + (IF ledger[1].ticker = ticker /\ ledger[1].type = "Sell"
               THEN (IF ledger[1].total < 0 THEN -ledger[1].total ELSE ledger[1].total)
               ELSE 0)

RECURSIVE SellQtyOf(_, _)
SellQtyOf(ledger, ticker) ==
    IF ledger = <<>> THEN 0
    ELSE SellQtyOf(Tail(ledger), ticker)
            + (IF ledger[1].ticker = ticker /\ ledger[1].type = "Sell"
               THEN ledger[1].qty ELSE 0)

\* C13: in every row of the report Realized Profit/Loss is the Sell revenue
\* less the average Buy cost times the shares sold (less nothing when the
\* ticker has no buys), and Total Profit/Loss is that realized amount plus
\* the Unrealized Profit/Loss, each to the cent.
C13_RealizedAndTotal ==
    ev.op = "generate_profit_loss_report" =>
        \A i \in 1..Len(ev.result) :
            LET row == ev.result[i]
                t == row.Ticker
                revenue == SellRevenueOf(transactions, t)
                bought == BuyQtyOf(transactions, t)
                d == IF bought > 0 THEN bought ELSE 1
                basis == IF bought > 0
                         THEN BuyTotalOf(transactions, t) * SellQtyOf(transactions, t)
                         ELSE 0
                realized == 100 * (revenue * d - basis)
            IN  /\ row.SellRevenue = 100 * revenue
                /\ row.RealizedProfitLoss = RoundDiv(realized, d)
                /\ row.TotalProfitLoss
                     = RoundDiv(realized + row.UnrealizedProfitLoss * d, d)

\* A report with a ticker bought and sold at a profit or loss, and a ticker
\* sold without any buy.
C13_Witness ==
    /\ ev.op = "generate_profit_loss_report"
    /\ \E i, j \in 1..Len(ev.result) :
         /\ BuyQtyOf(transactions, ev.result[i].Ticker) > 0
         /\ SellQtyOf(transactions, ev.result[i].Ticker) > 0
         /\ ev.result[i].RealizedProfitLoss # 0
         /\ BuyQtyOf(transactions, ev.result[j].Ticker) = 0
         /\ ev.result[j].RealizedProfitLoss = ev.result[j].SellRevenue
-----------------------------------------------------------------------------
(* Properties of the historical performance (checked under SpecPure) *)

\* The transactions of the ledger dated on or before d, in ledger order.
SubLedger(ledger, d) == SelectSeq(ledger, LAMBDA r : r.date <= d)

\* C14: the Portfolio Value of the point for date d is the sum of Current
\* Value of get_current_holdings on the transactions of the ledger dated on
\* or before d.
C14_PointIsHoldingsOfSubLedger ==
    ev.op = "calculate_historical_performance" =>
        \A k \in 1..Len(ev.result) :
            ev.result[k].PortfolioValue
                = SumField(get_current_holdings(
                               SubLedger(transactions, ev.result[k].Date)).rows,
                           "CurrentValue")
\* The distinct dates of a ledger.
DatesIn(ledger) == {ledger[i].date : i \in 1..Len(ledger)}

\* C15: calculate_historical_performance returns one point for each
\* distinct date of the ledger, in strictly ascending date order; a ledger
\* of no or one date gives no or one point.
C15_OnePointPerDate ==
    ev.op = "calculate_historical_performance" =>
        /\ Len(ev.result) = Cardinality(DatesIn(transactions))
        /\ {ev.result[k].Date : k \in 1..Len(ev.result)} = DatesIn(transactions)
        /\ \A k \in 1..(Len(ev.result) - 1) : ev.result[k].Date < ev.result[k + 1].Date

\* A series of two points from a ledger of three rows whose first row has
\* the later date.
C15_Witness ==
    /\ ev.op = "calculate_historical_performance"
    /\ Len(transactions) = 3
    /\ Len(ev.result) = 2
    /\ transactions[1].date > transactions[2].date
-----------------------------------------------------------------------------
(* Properties of the transaction costs (checked under SpecCosts) *)

\* C16: when fee + vat > 0, the net total of a Buy is greater in magnitude
\* than its total (more is paid) and the net total of a Sell is smaller in
\* magnitude than its total (less is received).
C16_NetTotalReducesBenefit ==
    (ev.op = "transaction_details" /\ ev.costs.fee + ev.costs.vat > 0) =>
        /\ ev.type = "Buy" => Abs(ev.costs.net_total) > Abs(ev.costs.total)
        /\ ev.type = "Sell" => Abs(ev.costs.net_total) < Abs(ev.costs.total)
-----------------------------------------------------------------------------
(* Properties of get_current_holdings as a function (checked under SpecPure) *)

-----------------------------------------------------------------------------
(* Properties of the portfolio summary (checked under SpecPure) *)

\* The sum of a column of the holdings, taken ticker by ticker over the
\* first n tickers.
RECURSIVE HeldFieldSum(_, _, _)
HeldFieldSum(holdings, field, n) ==
    IF n = 0 THEN 0
    ELSE HeldFieldSum(holdings, field, n - 1)
            + (IF TickerOrder[n] \in HeldTickers(holdings)
               THEN HoldingOf(holdings, TickerOrder[n])[field] ELSE 0)

RowsOfType(ledger, type) == {i \in 1..Len(ledger) : ledger[i].type = type}

\* C18: total_invested and current_value of the summary are the sums of
\* Total Cost and Current Value over the holdings, profit_loss is their
\* difference, and the three counts are taken over all rows of the ledger.
C18_SummaryOfHoldings ==
    ev.op = "get_portfolio_summary" =>
        LET holdings == get_current_holdings(transactions)
            n == Len(TickerOrder)
        IN  /\ ev.result.total_invested = HeldFieldSum(holdings, "TotalCost", n)
            /\ ev.result.current_value = HeldFieldSum(holdings, "CurrentValue", n)
            /\ ev.result.profit_loss
                 = ev.result.current_value - ev.result.total_invested
            /\ ev.result.total_transactions = Len(transactions)
            /\ ev.result.total_buys = Cardinality(RowsOfType(transactions, "Buy"))
            /\ ev.result.total_sells = Cardinality(RowsOfType(transactions, "Sell"))

\* The summary of a ledger with a holding at a profit or loss and a Sell of
\* a ticker that is not held.
C18_Witness ==
    /\ ev.op = "get_portfolio_summary"
    /\ ev.result.profit_loss # 0
    /\ \E i \in 1..Len(transactions) :
         /\ transactions[i].type = "Sell"
         /\ transactions[i].ticker
               \notin HeldTickers(get_current_holdings(transactions))
-----------------------------------------------------------------------------
(* Properties of the analytics on the empty ledger (checked under SpecPure) *)

\* C19: on the empty ledger the summary has all seven values 0, and the
\* holdings, the historical performance, the profit and loss report and the
\* transaction summary are empty; no call raises.
C19_EmptyLedger ==
    transactions = <<>> =>
        /\ ev.op = "get_portfolio_summary" =>
              /\ ev.result.total_invested = 0
              /\ ev.result.current_value = 0
              /\ ev.result.profit_loss = 0
              /\ ev.result.return_pct.num = 0
              /\ ev.result.total_transactions = 0
              /\ ev.result.total_buys = 0
              /\ ev.result.total_sells = 0
        /\ ev.op = "get_current_holdings" => ev.result.rows = <<>>
        /\ ev.op = "calculate_historical_performance" => ev.result = <<>>
        /\ ev.op = "generate_profit_loss_report" => ev.result = <<>>
        /\ ev.op = "generate_transaction_summary" => ev.result = <<>>
        /\ ev.op = "validate_transaction" => ~ev.result.raised

\* The historical performance of the empty ledger has been computed.
C19_Witness ==
    /\ transactions = <<>>
    /\ ev.op = "calculate_historical_performance"
    /\ ev.result = <<>>
-----------------------------------------------------------------------------
(* The worked example (checked under SpecPure) *)

\* C20: for the ledger [Buy AAPL 10 at 150, Sell AAPL 3 at 155] the holdings
\* are AAPL alone with 7 shares, average cost 150, total cost 1050, current
\* value 1085 and profit 35, and the report's row for AAPL has buy cost
\* 1500, sell revenue 465, realized profit 15, unrealized 35 and total 50.
C20_WorkedExample ==
    transactions = ExampleLedger =>
        /\ ev.op = "get_current_holdings" =>
              /\ Len(ev.result.rows) = 1
              /\ ev.result.rows[1].Ticker = "AAPL"
              /\ ev.result.rows[1].Shares = 7
              /\ ev.result.rows[1].AverageCost = 15000
              /\ ev.result.rows[1].TotalCost = 105000
              /\ ev.result.rows[1].CurrentValue = 108500
              /\ ev.result.rows[1].ProfitLoss = 3500
        /\ ev.op = "generate_profit_loss_report" =>
              /\ Len(ev.result) = 1
              /\ ev.result[1].Ticker = "AAPL"
              /\ ev.result[1].BuyCost = 150000
              /\ ev.result[1].SellRevenue = 46500
              /\ ev.result[1].RealizedProfitLoss = 1500
              /\ ev.result[1].UnrealizedProfitLoss = 3500
              /\ ev.result[1].TotalProfitLoss = 5000

\* The report of the example's ledger has been made.
C20_Witness ==
    /\ transactions = ExampleLedger
    /\ ev.op = "generate_profit_loss_report"
    /\ Len(ev.result) = 1
-----------------------------------------------------------------------------
(* Properties of filter_transactions (checked under SpecFilter) *)

\* Whether a row satisfies every criterion that is not None.
MatchesNonNone(r, e) ==
    /\ e.ticker # None => r.ticker = e.ticker
    /\ e.trans_type # None => r.type = e.trans_type
    /\ e.start_date # NoDate => r.date >= e.start_date
    /\ e.end_date # NoDate => r.date <= e.end_date

\* Whether a row satisfies every criterion that is neither None nor the
\* empty text.
Matches(r, e) ==
    /\ e.ticker \notin {None, ""} => r.ticker = e.ticker
    /\ e.trans_type \notin {None, ""} => r.type = e.trans_type
    /\ e.start_date # NoDate => r.date >= e.start_date
    /\ e.end_date # NoDate => r.date <= e.end_date

\* The positions of the rows of a ledger that satisfy the criteria, and the
\* k-th of them in ascending order.
MatchingNonNone(ledger, e) ==
    {i \in 1..Len(ledger) : MatchesNonNone(ledger[i], e)}

Matching(ledger, e) == {i \in 1..Len(ledger) : Matches(ledger[i], e)}

KthOf(positions, k) ==
    CHOOSE i \in positions : Cardinality({j \in positions : j < i}) = k - 1

-----------------------------------------------------------------------------
(* Properties of generate_transaction_summary (checked under SpecPure) *)

\* The place of a ticker in the ascending order of the tickers.
TickerRank(ticker) ==
    CHOOSE i \in 1..Len(TickerOrder) : TickerOrder[i] = ticker

\* C22: the transaction summary has one row for each ticker of the ledger,
\* in ascending order of the tickers; Buy Shares and Sell Shares are the
\* summed quantities of the ticker's Buy and Sell rows and Net Shares is
\* their difference.
C22_SummaryPerTicker ==
    ev.op = "generate_transaction_summary" =>
        /\ {ev.result[k].Ticker : k \in 1..Len(ev.result)} = TickersIn(transactions)
        /\ \A k \in 1..Len(ev.result) :
             /\ k > 1 => TickerRank(ev.result[k - 1].Ticker)
                            < TickerRank(ev.result[k].Ticker)
             /\ ev.result[k].BuyShares
                  = BuyQtyOf(transactions, ev.result[k].Ticker)
             /\ ev.result[k].SellShares
                  = SellQtyOf(transactions, ev.result[k].Ticker)
             /\ ev.result[k].NetShares
                  = ev.result[k].BuyShares - ev.result[k].SellShares

\* A summary of two tickers entered in descending order, one of them both
\* bought and sold.
C22_Witness ==
    /\ ev.op = "generate_transaction_summary"
    /\ Len(ev.result) = 2
    /\ transactions[1].ticker = ev.result[2].Ticker
    /\ \E k \in 1..2 : ev.result[k].BuyShares > 0 /\ ev.result[k].SellShares > 0
-----------------------------------------------------------------------------
(* Order of the profit and loss report (checked under SpecPure) *)

\* C23: the rows of the report are in non-increasing order of Total
\* Profit/Loss.
C23_ReportSortedByTotal ==
    ev.op = "generate_profit_loss_report" =>
        \A k \in 2..Len(ev.result) :
            ev.result[k - 1].TotalProfitLoss >= ev.result[k].TotalProfitLoss

\* A report of two tickers whose totals differ, the later ticker first.
C23_Witness ==
    /\ ev.op = "generate_profit_loss_report"
    /\ Len(ev.result) = 2
    /\ ev.result[1].TotalProfitLoss > ev.result[2].TotalProfitLoss
    /\ TickerRank(ev.result[1].Ticker) > TickerRank(ev.result[2].Ticker)
-----------------------------------------------------------------------------
(* The batch submission step by step (checked under SpecBatch) *)

\* C24: while the rows of a batch are examined the ledger stays as it was;
\* the ledger changes only in the step after the last row, and that step
\* appends all the rows the batch accepted, which are the rows the whole
\* handler accepts.
C24_BatchCommitsOnce ==
    [][/\ ev'.op = "batch_loop" => transactions' = transactions
       /\ transactions' # transactions =>
            /\ ev.op = "batch_loop" /\ ev.i > Len(ev.slots)
            /\ ev'.op = "batch"
            /\ transactions'
                 = transactions \o AcceptedRows(ev.slots,
                       BatchLoop(ev.slots, 1, LoopStart(transactions)).accepted)]_vars

\* A run that has accepted its first row and changed its own holdings, with
\* a row still to examine and the ledger not yet holding the accepted row.
C24_Witness ==
    /\ ev.op = "batch_loop"
    /\ ev.i = 2 /\ ev.i <= Len(ev.slots)
    /\ ev.st.accepted = <<TRUE>>
    /\ ev.st.rows # TickerShares(get_current_holdings(transactions))
    /\ transactions # <<>>
-----------------------------------------------------------------------------
(* Net positions of the application's ledger (checked under Spec) *)

\* C25: in every ledger the application reaches from the empty one, the
\* Buy quantities of each ticker less its Sell quantities are not negative.
C25_NetSharesNonNegative ==
    \A ticker \in TickersIn(transactions) : NetQty(transactions, ticker) >= 0
-----------------------------------------------------------------------------
(* Buys through the batch form and the bulk import (checked under Spec) *)

\* C26: when a batch or a bulk file that is not refused as a whole holds a
\* Buy with a ticker, a positive price and a positive quantity, the Buy is
\* accepted and the ledger afterwards holds it, whatever the ledger was.
C26_ValidBuyAccepted ==
    [][ev'.op \in {"batch", "bulk"} /\ ev'.status # "rejected" =>
        \A i \in 1..Len(ev'.rows) :
            (/\ ev'.rows[i].type = "Buy"
             /\ ev'.rows[i].ticker # NoTicker
             /\ ev'.rows[i].price > 0
             /\ ev'.rows[i].qty > 0)
              => /\ ev'.accepted[i]
                 /\ \E k \in (Len(transactions) + 1)..Len(transactions') :
                        transactions'[k] = ev'.rows[i]]_vars
-----------------------------------------------------------------------------
(* The batch form against the single form (checked under SpecBatch) *)

\* The rows submitted one at a time through the single form with a broker
\* chosen: the ledger afterwards and one accepted flag per row.
RECURSIVE OneAtATime(_, _)
OneAtATime(ledger, rows) ==
    IF rows = <<>> THEN [ledger |-> ledger, accepted |-> <<>>]
    ELSE LET r == rows[1]
             ok == SingleOutcome(ledger, r.ticker, r.type, r.price, r.qty, "Other") = "ok"
             rest == OneAtATime(IF ok THEN Concat(ledger, <<r>>) ELSE ledger, Tail(rows))
         IN  [ledger |-> rest.ledger, accepted |-> <<ok>> \o rest.accepted]

\* C27: on a ledger where no ticker's net shares are negative, a batch of
\* rows with tickers and positive quantities ends with the ledger, and with
\* the per-row decisions, that the same rows give when submitted one at a
\* time through the single form.
C27_BatchEqualsOneAtATime ==
    [][(/\ ev'.op = "batch"
        /\ \A ticker \in TickersIn(transactions) : NetQty(transactions, ticker) >= 0
        /\ \A i \in 1..Len(ev'.rows) :
              ev'.rows[i].ticker # NoTicker /\ ev'.rows[i].qty > 0)
        => /\ transactions' = OneAtATime(transactions, ev'.rows).ledger
           /\ ev'.accepted = OneAtATime(transactions, ev'.rows).accepted]_vars
-----------------------------------------------------------------------------
(* Positions by date (checked under SpecValidating) *)

\* C28: in a ledger built through the single form, the batch form and the
\* bulk import, at every date of the performance series the transactions
\* dated up to that date leave no ticker with negative net shares.
C28_CoveredAtEveryDate ==
    \A d \in DatesIn(transactions) :
        \A ticker \in TickersIn(transactions) :
            NetQty(SubLedger(transactions, d), ticker) >= 0
-----------------------------------------------------------------------------
(* Row order and the holdings (checked under SpecPure) *)

\* The orders the rows of a ledger can be put in, and the ledger in one.
RowOrders(n) ==
    {f \in [1..n -> 1..n] : \A i, j \in 1..n : f[i] = f[j] => i = j}

Permuted(ledger, f) == [i \in 1..Len(ledger) |-> ledger[f[i]]]

\* C29: in whatever order the rows of the ledger are put, get_current_holdings
\* holds the same tickers, each with the same Shares, Average Cost and
\* Total Cost.
C29_CostsIndependentOfRowOrder ==
    ev.op = "get_current_holdings" =>
        \A f \in RowOrders(Len(transactions)) :
            LET other == get_current_holdings(Permuted(transactions, f))
            IN  /\ other.cols = ev.result.cols
                /\ HeldTickers(other) = HeldTickers(ev.result)
                /\ \A ticker \in HeldTickers(ev.result) :
                     /\ HoldingOf(other, ticker).Shares
                          = HoldingOf(ev.result, ticker).Shares
                     /\ HoldingOf(other, ticker).AverageCost
                          = HoldingOf(ev.result, ticker).AverageCost
                     /\ HoldingOf(other, ticker).TotalCost
                          = HoldingOf(ev.result, ticker).TotalCost

\* Holdings of a ledger of three rows with a ticker bought at two prices,
\* where another order of the rows gives another Current Value.
C29_Witness ==
    /\ ev.op = "get_current_holdings"
    /\ Len(transactions) = 3
    /\ \E ticker \in HeldTickers(ev.result) :
         /\ \E i, j \in 1..3 :
              /\ transactions[i].ticker = ticker /\ transactions[j].ticker = ticker
              /\ transactions[i].type = "Buy" /\ transactions[j].type = "Buy"
              /\ transactions[i].price # transactions[j].price
         /\ \E f \in RowOrders(3) :
              HoldingOf(get_current_holdings(Permuted(transactions, f)), ticker).CurrentValue
                # HoldingOf(ev.result, ticker).CurrentValue
-----------------------------------------------------------------------------
(* The report against the portfolio summary (checked under SpecPure) *)

\* Every average Buy cost of the ledger is a whole number of cents.
ExactAverages(ledger) ==
    \A ticker \in TickersIn(ledger) :
        BuyQtyOf(ledger, ticker) > 0 =>
            (100 * BuyTotalOf(ledger, ticker)) % BuyQtyOf(ledger, ticker) = 0

\* C30: on a ledger whose averages are exact, the Unrealized Profit/Loss of
\* the report rows add up to profit_loss of get_portfolio_summary, and every
\* report row with a non-zero Unrealized Profit/Loss is of a ticker in
\* get_current_holdings.
C30_UnrealizedSumsToSummary ==
    (ev.op = "generate_profit_loss_report" /\ ExactAverages(transactions)) =>
        /\ SumField(ev.result, "UnrealizedProfitLoss")
             = get_portfolio_summary(transactions).profit_loss
        /\ \A k \in 1..Len(ev.result) :
             ev.result[k].UnrealizedProfitLoss # 0
               => ev.result[k].Ticker \in HeldTickers(get_current_holdings(transactions))

\* A report on a ledger of exact averages with a row of non-zero unrealized
\* profit and a row for a ticker that is not held.
C30_Witness ==
    /\ ev.op = "generate_profit_loss_report"
    /\ ExactAverages(transactions)
    /\ \E k \in 1..Len(ev.result) : ev.result[k].UnrealizedProfitLoss # 0
    /\ \E k \in 1..Len(ev.result) :
         ev.result[k].Ticker \notin HeldTickers(get_current_holdings(transactions))

====
